---- MODULE Spec2Model ----
(***************************************************************************)
(* A model of path-tool (src/src/main.rs): the utility that edits,         *)
(* filters and prints colon-delimited PATH-like strings.                   *)
(*                                                                         *)
(* A Rust String is a sequence of one-character strings, so that parsing   *)
(* and joining work on characters.  A Vec<String> is a sequence of such    *)
(* sequences.  The filesystem is what the three calls the program makes    *)
(* (Path::exists, fs::metadata, fs::canonicalize) answer for each name.    *)
(***************************************************************************)
EXTENDS Naturals, Sequences, FiniteSets

VARIABLES
    pc,            \* position in main_logic, or in a unit call
    env,           \* value of the environment variable named by cli.env
    command,       \* cli.command: [kind, directories]
    filterReq,     \* cli.filter
    normalizeReq,  \* cli.normalize
    prettyReq,     \* cli.pretty
    fs,            \* the filesystem: name -> what the system calls answer
    current,       \* main_logic's `current`
    path,          \* main_logic's `path`; the argument of a unit call
    output,        \* the bytes written to `output`
    status,        \* what main_logic returned: Ok(()) or Err with its context
    source,        \* unit call of parse_path: its argument
    parsed,        \* parse_path(source)
    formatted,     \* to_string(parsed)
    reparsed,      \* parse_path(formatted)
    result,        \* unit call of filter / normalize / apply_filters: what it returns
    dirArg,        \* unit call of add_unique: its dir argument
    once,          \* the vector after add_unique(path, dirArg)
    twice          \* the vector after a second add_unique with the same dir

vars == <<pc, env, command, filterReq, normalizeReq, prettyReq, fs, current,
          path, output, source, parsed, formatted, reparsed, result,
          dirArg, once, twice, status>>

----------------------------------------------------------------------------
(* Bounds and input alphabets *)

\* most segments (colon-separated pieces) in the environment value and the
\* positional arguments of one run of main_logic, taken together
MaxSegs == 3

\* the same, for the runs that request no post-processing and no pretty output
MaxEditSegs == 4

\* longest source string handed to parse_path in a unit call
MaxSrcLen == 7

\* longest vector handed to filter / normalize / apply_filters in a unit call
MaxPathLen == 3

\* most segments in the path string handed to get_shadowed
MaxShadowSegs == 3

Colon == ":"

\* characters of the source strings of the parse_path unit calls
Chars == {"a", "b", Colon}

StrA  == <<"a">>
StrLa == <<"l", "a">>
StrB  == <<"b">>
StrZ  == <<"z">>

\* canonical absolute forms
CanonA == <<"/", "a">>
CanonB == <<"/", "b">>

\* the names on disk; every other name does not exist
DiskNames == {StrA, StrLa, StrB}

\* the segments inputs of main_logic are built from (the empty segment is
\* what leading, trailing and doubled colons give)
Segs == {<<>>, StrA, StrLa, StrB, StrZ}

SeqsUpTo(S, n) == UNION {[1..k -> S] : k \in 0..n}

\* glue segments into one colon-delimited input string
RECURSIVE Glue(_)
Glue(segs) ==
    IF Len(segs) = 0 THEN <<>>
    ELSE IF Len(segs) = 1 THEN segs[1]
    ELSE segs[1] \o <<Colon>> \o Glue(Tail(segs))

----------------------------------------------------------------------------
(* List primitives *)

\* remove: path.retain(|x| x != dir)
remove(p, dir) == SelectSeq(p, LAMBDA x : x # dir)

\* add_last without the remove before the push
add_last_no_remove(p, dir) == Append(p, dir)

\* add_last: remove(path, dir); path.push(dir)
add_last(p, dir) == Append(remove(p, dir), dir)

\* add_unique without the scan for an equal entry
add_unique_no_scan(p, dir) ==
    IF dir # <<>> THEN Append(p, dir) ELSE p

\* add_unique moving an entry already present to the back
add_unique_moving(p, dir) ==
    IF dir # <<>> THEN Append(SelectSeq(p, LAMBDA x : x # dir), dir) ELSE p

\* add_unique: nothing for an empty dir or one already present, else push
add_unique(p, dir) ==
    IF dir # <<>>
    THEN IF \E i \in 1..Len(p) : p[i] = dir THEN p ELSE Append(p, dir)
    ELSE p

RECURSIVE add_all_last(_, _)
add_all_last(p, other) ==
    IF other = <<>> THEN p
    ELSE add_all_last(add_last(p, Head(other)), Tail(other))

RECURSIVE add_all_unique(_, _)
add_all_unique(p, other) ==
    IF other = <<>> THEN p
    ELSE add_all_unique(add_unique(p, Head(other)), Tail(other))

----------------------------------------------------------------------------
(* Parsing and formatting *)

\* str::find(':'): the position (from 1) of the first colon, 0 for None
find(s, ch) ==
    IF \E i \in 1..Len(s) : s[i] = ch
    THEN CHOOSE i \in 1..Len(s) : s[i] = ch /\ \A j \in 1..(i - 1) : s[j] # ch
    ELSE 0

\* the while loop of parse_path
RECURSIVE parse_loop(_, _)
parse_loop(p, remaining) ==
    IF remaining = <<>> THEN p
    ELSE LET i == find(remaining, Colon) IN
         IF i # 0
         THEN parse_loop(add_unique(p, SubSeq(remaining, 1, i - 1)),
                         SubSeq(remaining, i + 1, Len(remaining)))
         ELSE parse_loop(add_unique(p, remaining), <<>>)

parse_path(src) == parse_loop(<<>>, src)

\* to_string joining with nothing between the entries
RECURSIVE to_string_no_colon(_)
to_string_no_colon(p) ==
    IF Len(p) = 0 THEN <<>> ELSE p[1] \o to_string_no_colon(Tail(p))

\* to_string: path.join(":")
RECURSIVE to_string(_)
to_string(p) ==
    IF Len(p) = 0 THEN <<>>
    ELSE IF Len(p) = 1 THEN p[1]
    ELSE p[1] \o <<Colon>> \o to_string(Tail(p))

----------------------------------------------------------------------------
(* Editor operations *)

\* the `for arg in directories` loop shared by exec_new, exec_add, exec_append
RECURSIVE merge_args(_, _)
merge_args(p, directories) ==
    IF directories = <<>> THEN p
    ELSE merge_args(add_all_last(p, parse_path(Head(directories))),
                    Tail(directories))

\* the loop with add_all_unique in place of add_all_last
RECURSIVE merge_args_unique(_, _)
merge_args_unique(p, directories) ==
    IF directories = <<>> THEN p
    ELSE merge_args_unique(add_all_unique(p, parse_path(Head(directories))),
                           Tail(directories))

\* exec_new keeping the first mention of a directory in place
exec_new_first_wins(directories) == merge_args_unique(<<>>, directories)

exec_new(directories) == merge_args(<<>>, directories)

\* exec_add merging the current path with add_all_last
exec_add_evicting(cur, directories) ==
    add_all_last(merge_args(<<>>, directories), cur)

exec_add(cur, directories) == add_all_unique(merge_args(<<>>, directories), cur)

\* exec_append leaving a repeated current entry where it was
exec_append_no_move(cur, directories) ==
    merge_args_unique(add_all_unique(<<>>, cur), directories)

exec_append(cur, directories) == merge_args(add_all_unique(<<>>, cur), directories)

----------------------------------------------------------------------------
(* The filesystem, as the program sees it *)

\* what one name answers: Path::exists false ("absent": missing, or a broken
\* symlink); exists and fs::metadata says not a directory ("file"); exists
\* but fs::metadata fails ("metaerr"); a directory or a symlink to one whose
\* fs::canonicalize gives target ("dir"), fails ("canonerr"), or gives a path
\* that to_str cannot represent ("nonutf8")
FsEntry(kind, target) == [kind |-> kind, target |-> target]

Absent == FsEntry("absent", <<>>)

FsEntries ==
    {FsEntry(k, <<>>) : k \in {"absent", "file", "metaerr", "canonerr", "nonutf8"}}
        \cup {FsEntry("dir", t) : t \in {CanonA, CanonB}}

\* every filesystem over the names on disk
FileSystems == [DiskNames -> FsEntries]

\* the fixture of the tests (test_dirs): a and b are directories, la is a
\* symlink to a, and nothing else exists
TestFs ==
    [n \in DiskNames |->
        IF n = StrB THEN FsEntry("dir", CanonB) ELSE FsEntry("dir", CanonA)]

\* the fixture with la a symlink that cannot be resolved and b a regular file
FaultyFs ==
    [n \in DiskNames |->
        IF n = StrA THEN FsEntry("dir", CanonA)
        ELSE IF n = StrLa THEN FsEntry("canonerr", <<>>)
        ELSE FsEntry("file", <<>>)]

lookup(f, p) == IF p \in DOMAIN f THEN f[p] ELSE Absent

\* Result<bool>
OkBool(b) == [ok |-> TRUE, val |-> b]
ErrBool == [ok |-> FALSE, val |-> FALSE]

\* is_valid
is_valid(f, p) ==
    LET e == lookup(f, p) IN
    IF e.kind = "absent" THEN OkBool(FALSE)
    ELSE IF e.kind = "metaerr" THEN ErrBool
    ELSE OkBool(e.kind # "file")

\* Result<Option<String>>
OkNone == [ok |-> TRUE, some |-> FALSE, val |-> <<>>]
OkSome(s) == [ok |-> TRUE, some |-> TRUE, val |-> s]
ErrOpt == [ok |-> FALSE, some |-> FALSE, val |-> <<>>]

\* canonicalize
canonicalize(f, p) ==
    LET v == is_valid(f, p)
        e == lookup(f, p)
    IN  IF ~v.ok THEN ErrOpt
        ELSE IF ~v.val THEN OkNone
        ELSE IF e.kind = "canonerr" THEN ErrOpt
        ELSE IF e.kind = "nonutf8" THEN OkSome(p)
        ELSE OkSome(e.target)

----------------------------------------------------------------------------
(* Post-processing *)

\* Itertools::unique: the first occurrence of each element, in order
RECURSIVE unique_from(_, _)
unique_from(seen, s) ==
    IF s = <<>> THEN seen
    ELSE unique_from(IF \E i \in 1..Len(seen) : seen[i] = Head(s)
                     THEN seen ELSE Append(seen, Head(s)),
                     Tail(s))

unique(s) == unique_from(<<>>, s)

\* what a call returns: a vector, or a panic that unwinds out of it
Returned(list) == [panicked |-> FALSE, list |-> list]
Panicked == [panicked |-> TRUE, list |-> <<>>]

\* filter keeping the entries whose check fails as well
filter_keep_errors(f, p) ==
    LET v(x) == is_valid(f, x) IN
    unique(SelectSeq(p, LAMBDA x : ~v(x).ok \/ v(x).val))

\* filter: keep x when is_valid(x).ok() == Some(true), then unique
filter(f, p) ==
    LET v(x) == is_valid(f, x) IN
    unique(SelectSeq(p, LAMBDA x : v(x).ok /\ v(x).val))

\* normalize without the unique() after the mapping
normalize_no_unique(f, p) ==
    IF \E i \in 1..Len(p) : ~canonicalize(f, p[i]).ok
    THEN Panicked
    ELSE LET c(x) == canonicalize(f, x)
             mapped == [i \in 1..Len(p) |-> IF c(p[i]).some THEN c(p[i]).val ELSE <<>>]
         IN  Returned(SelectSeq(mapped, LAMBDA x : x # <<>>))

\* normalize: canonicalize(x).unwrap().unwrap_or_default() for each x (the
\* unwrap panics on Err), drop the empty strings, then unique
normalize(f, p) ==
    IF \E i \in 1..Len(p) : ~canonicalize(f, p[i]).ok
    THEN Panicked
    ELSE LET c(x) == canonicalize(f, x)
             mapped == [i \in 1..Len(p) |-> IF c(p[i]).some THEN c(p[i]).val ELSE <<>>]
         IN  Returned(unique(SelectSeq(mapped, LAMBDA x : x # <<>>)))

\* apply_filters testing normalize_requested first
apply_filters_normalize_first(f, p, filter_requested, normalize_requested) ==
    IF normalize_requested THEN normalize(f, p)
    ELSE IF filter_requested THEN Returned(filter(f, p))
    ELSE Returned(p)

apply_filters(f, p, filter_requested, normalize_requested) ==
    IF filter_requested THEN Returned(filter(f, p))
    ELSE IF normalize_requested THEN normalize(f, p)
    ELSE Returned(p)

----------------------------------------------------------------------------
(* One run of main_logic *)

Kinds == {"Print", "New", "Add", "Append"}

Command(kind, directories) == [kind |-> kind, directories |-> directories]

\* the ways to cut m segments into consecutive, non-empty arguments: g[i] is
\* the argument that segment i belongs to
Groupings(m) ==
    {g \in [1..m -> 1..m] :
        /\ m > 0 => g[1] = 1
        /\ \A i \in 1..(m - 1) : g[i + 1] = g[i] \/ g[i + 1] = g[i] + 1}

\* the arguments that grouping g makes of the segments
ArgsOf(segs, g) ==
    IF segs = <<>> THEN <<>>
    ELSE [j \in 1..g[Len(segs)] |->
            LET mine == {k \in 1..Len(segs) : g[k] = j}
                lo == CHOOSE k \in mine : \A h \in mine : k <= h
            IN  Glue(SubSeq(segs, lo, lo + Cardinality(mine) - 1))]

Unused == <<>>

\* the variables of the add_unique unit calls, outside of them
AddUniqueVarsUnused ==
    /\ dirArg = Unused
    /\ once = Unused
    /\ twice = Unused

UnitVarsUnused ==
    /\ AddUniqueVarsUnused
    /\ source = Unused
    /\ parsed = Unused
    /\ formatted = Unused
    /\ reparsed = Unused
    /\ result = Returned(Unused)

\* the states main_logic starts in with at most n segments of input, the
\* flags drawn from flags and the filesystem from fss: the environment value
\* and the parsed command line
MainStart(n, flags, fss) ==
    /\ pc = "start"
    /\ \E flat \in SeqsUpTo(Segs, n) :
       \E k \in 0..Len(flat) :
       \E g \in Groupings(Len(flat) - k) :
       \E kind \in Kinds :
          /\ kind = "Print" => k = Len(flat)
          /\ env = Glue(SubSeq(flat, 1, k))
          /\ command = Command(kind, ArgsOf(SubSeq(flat, k + 1, Len(flat)), g))
    /\ filterReq \in flags
    /\ normalizeReq \in flags
    /\ prettyReq \in flags
    /\ fs \in fss
    /\ current = <<>>
    /\ path = <<>>
    /\ output = <<>>
    /\ status = Unused
    /\ UnitVarsUnused

Init == MainStart(MaxSegs, BOOLEAN, {TestFs, FaultyFs})

\* line 64: let current = parse_path(&env::var(cli.env).unwrap_or_default())
ParseCurrent ==
    /\ pc = "start"
    /\ current' = parse_path(env)
    /\ pc' = "parsed"
    /\ UNCHANGED <<status, dirArg, once, twice, env, command, filterReq, normalizeReq, prettyReq, fs, path,
                   output, source, parsed, formatted, reparsed, result>>

\* lines 66-71: the match on cli.command
ExecCommand ==
    /\ pc = "parsed"
    /\ path' = CASE command.kind = "Print" -> current
                 [] command.kind = "New" -> exec_new(command.directories)
                 [] command.kind = "Add" -> exec_add(current, command.directories)
                 [] command.kind = "Append" -> exec_append(current, command.directories)
    /\ pc' = "edited"
    /\ UNCHANGED <<status, dirArg, once, twice, env, command, filterReq, normalizeReq, prettyReq, fs, current,
                   output, source, parsed, formatted, reparsed, result>>

\* line 72: path = apply_filters(path, cli.filter, cli.normalize); a panic in
\* it ends the process
ApplyFilters ==
    /\ pc = "edited"
    /\ LET r == apply_filters(fs, path, filterReq, normalizeReq) IN
         IF r.panicked
         THEN pc' = "panicked" /\ path' = path
         ELSE pc' = "filtered" /\ path' = r.list
    /\ UNCHANGED <<status, dirArg, once, twice, env, command, filterReq, normalizeReq, prettyReq, fs, current,
                   output, source, parsed, formatted, reparsed, result>>

Newline == "\n"

\* Result<()>
Ok == [ok |-> TRUE, context |-> <<>>]
Err(context) == [ok |-> FALSE, context |-> context]

\* writeln!(output, "{}", text) on a writer that takes room more bytes and
\* then fails: the bytes it took are written, the rest of the line is not
writeln(written, room, text) ==
    LET line == text \o <<Newline>> IN
    IF Len(line) <= room
    THEN [ok |-> TRUE, written |-> written \o line, room |-> room - Len(line)]
    ELSE [ok |-> FALSE, written |-> written \o SubSeq(line, 1, room), room |-> 0]

\* the loop of exec_print: the first failing writeln! ends it with
\* "Failed to print <dir>"
RECURSIVE exec_print_loop(_, _, _)
exec_print_loop(cur, written, room) ==
    IF cur = <<>> THEN [status |-> Ok, written |-> written]
    ELSE LET w == writeln(written, room, Head(cur)) IN
         IF w.ok
         THEN exec_print_loop(Tail(cur), w.written, w.room)
         ELSE [status |-> Err(<<"Failed to print ">> \o Head(cur)),
               written |-> w.written]

\* exec_print: one line per directory
exec_print(cur, room) == exec_print_loop(cur, <<>>, room)

\* line 76: writeln!(output, "{}", to_string(&path)) with its context
write_path(p, room) ==
    LET w == writeln(<<>>, room, to_string(p)) IN
    [status |-> IF w.ok THEN Ok ELSE Err(<<"Failed to write output">>),
     written |-> w.written]

\* lines 65 and 73-77: the bytes written and the value returned.  The writer
\* takes room bytes before it fails; a writer with room for the whole text
\* never fails, so no larger room behaves differently
WriteOutput ==
    /\ pc = "filtered"
    /\ \E room \in 0..(Len(to_string(path)) + 1) :
         LET pretty == prettyReq \/ command.kind = "Print"
             r == IF pretty THEN exec_print(path, room) ELSE write_path(path, room)
         IN  /\ output' = r.written
             /\ status' = r.status
             /\ pc' = IF r.status.ok THEN "done" ELSE "write_failed"
    /\ UNCHANGED <<dirArg, once, twice, env, command, filterReq, normalizeReq, prettyReq, fs, current,
                   path, source, parsed, formatted, reparsed, result>>

Next == ParseCurrent \/ ExecCommand \/ ApplyFilters \/ WriteOutput

Spec == Init /\ [][Next]_vars

\* the runs with plain output and no post-processing, on longer inputs
InitEdit == MainStart(MaxEditSegs, {FALSE}, {TestFs})

SpecEdit == InitEdit /\ [][Next]_vars

----------------------------------------------------------------------------
(* Unit calls of parse_path and to_string *)

MainVarsUnused ==
    /\ AddUniqueVarsUnused
    /\ env = Unused
    /\ command = Command("Print", <<>>)
    /\ filterReq = FALSE
    /\ normalizeReq = FALSE
    /\ prettyReq = FALSE
    /\ current = Unused
    /\ output = Unused
    /\ status = Unused

InitParse ==
    /\ pc = "parse_start"
    /\ source \in SeqsUpTo(Chars, MaxSrcLen)
    /\ parsed = Unused
    /\ formatted = Unused
    /\ reparsed = Unused
    /\ result = Returned(Unused)
    /\ fs = TestFs
    /\ path = Unused
    /\ MainVarsUnused

CallParsePath ==
    /\ pc = "parse_start"
    /\ parsed' = parse_path(source)
    /\ pc' = "parse_done"
    /\ UNCHANGED <<status, dirArg, once, twice, env, command, filterReq, normalizeReq, prettyReq, fs, current,
                   path, output, source, formatted, reparsed, result>>

CallToString ==
    /\ pc = "parse_done"
    /\ formatted' = to_string(parsed)
    /\ pc' = "format_done"
    /\ UNCHANGED <<status, dirArg, once, twice, env, command, filterReq, normalizeReq, prettyReq, fs, current,
                   path, output, source, parsed, reparsed, result>>

CallParsePathAgain ==
    /\ pc = "format_done"
    /\ reparsed' = parse_path(formatted)
    /\ pc' = "reparse_done"
    /\ UNCHANGED <<status, dirArg, once, twice, env, command, filterReq, normalizeReq, prettyReq, fs, current,
                   path, output, source, parsed, formatted, result>>

NextParse == CallParsePath \/ CallToString \/ CallParsePathAgain

SpecParse == InitParse /\ [][NextParse]_vars

----------------------------------------------------------------------------
(* Unit calls of filter, normalize and apply_filters *)

\* any vector of names, repeats included, on any filesystem
InitPost ==
    /\ pc = "post_start"
    /\ path \in SeqsUpTo(DiskNames, MaxPathLen)
    /\ fs \in FileSystems
    /\ result = Returned(Unused)
    /\ source = Unused
    /\ parsed = Unused
    /\ formatted = Unused
    /\ reparsed = Unused
    /\ MainVarsUnused

CallFilter ==
    /\ pc = "post_start"
    /\ result' = Returned(filter(fs, path))
    /\ pc' = "filter_done"
    /\ UNCHANGED <<status, dirArg, once, twice, env, command, filterReq, normalizeReq, prettyReq, fs, current,
                   path, output, source, parsed, formatted, reparsed>>

CallNormalize ==
    /\ pc = "post_start"
    /\ result' = normalize(fs, path)
    /\ pc' = "normalize_done"
    /\ UNCHANGED <<status, dirArg, once, twice, env, command, filterReq, normalizeReq, prettyReq, fs, current,
                   path, output, source, parsed, formatted, reparsed>>

CallApplyFilters ==
    /\ pc = "post_start"
    /\ \E f \in BOOLEAN, n \in BOOLEAN :
          /\ filterReq' = f
          /\ normalizeReq' = n
          /\ result' = apply_filters(fs, path, f, n)
    /\ pc' = "apply_done"
    /\ UNCHANGED <<status, dirArg, once, twice, env, command, prettyReq, fs, current, path, output, source,
                   parsed, formatted, reparsed>>

NextPost == CallFilter \/ CallNormalize \/ CallApplyFilters

SpecPost == InitPost /\ [][NextPost]_vars

----------------------------------------------------------------------------
(* What the properties are stated with *)

\* the k-th smallest member of a set of numbers
Nth(I, k) == CHOOSE c \in I : Cardinality({d \in I : d < c}) = k - 1

\* the entries of s at the positions I, in order
EntriesAt(s, I) == [k \in 1..Cardinality(I) |-> s[Nth(I, k)]]

\* the pieces of s between its colons, the empty ones included
SplitOnColon(s) ==
    LET cuts == {0} \cup {i \in 1..Len(s) : s[i] = Colon} \cup {Len(s) + 1}
    IN  [k \in 1..(Cardinality(cuts) - 1) |->
            SubSeq(s, Nth(cuts, k) + 1, Nth(cuts, k + 1) - 1)]

NonEmpty(s) == EntriesAt(s, {i \in 1..Len(s) : s[i] # <<>>})

\* each value once, where it occurs first
KeepFirst(s) ==
    EntriesAt(s, {i \in 1..Len(s) : \A j \in 1..(i - 1) : s[j] # s[i]})

\* each value once, where it occurs last
KeepLast(s) ==
    EntriesAt(s, {i \in 1..Len(s) : \A j \in (i + 1)..Len(s) : s[j] # s[i]})

NoTwoEqual(s) == \A i, j \in 1..Len(s) : i # j => s[i] # s[j]

Elems(s) == {s[i] : i \in 1..Len(s)}

----------------------------------------------------------------------------
(* Properties *)

\* C1: parse_path returns the non-empty pieces of the source between its
\* colons, each distinct piece once, at the place of its first occurrence
C1_ParseFirstOccurrences ==
    pc \in {"parse_done", "format_done", "reparse_done"} =>
        parsed = KeepFirst(NonEmpty(SplitOnColon(source)))

\* C1 witness: ":a::b:a" (leading and doubled colons, a repeated) parses to [a, b]
C1_Witness ==
    /\ pc = "parse_done"
    /\ source = <<Colon, "a", Colon, Colon, "b", Colon, "a">>
    /\ parsed = <<StrA, StrB>>

\* C10: parsing the formatted parse of a source gives the parse again, and the
\* empty list formats to the empty string
C10_ParseFormatRoundTrip ==
    /\ pc \in {"format_done", "reparse_done"} =>
          (parsed = <<>> => formatted = <<>>)
    /\ pc = "reparse_done" => reparsed = parsed

\* C10 witness: "b::a:b" formats to "b:a", another string, which parses to the
\* same [b, a]
C10_Witness ==
    /\ pc = "reparse_done"
    /\ source = <<"b", Colon, Colon, "a", Colon, "b">>
    /\ formatted = <<"b", Colon, "a">>
    /\ reparsed = <<StrB, StrA>>
    /\ parsed = reparsed

\* all the pieces of a sequence of sequences, in order
RECURSIVE Concat(_)
Concat(ss) == IF ss = <<>> THEN <<>> ELSE Head(ss) \o Concat(Tail(ss))

\* every mention of a directory in the arguments, left to right
AllMentions(directories) ==
    Concat([i \in 1..Len(directories) |-> NonEmpty(SplitOnColon(directories[i]))])

\* the mentions with each argument's own repeats counted once, where first made
ParsedMentions(directories) ==
    Concat([i \in 1..Len(directories) |->
                KeepFirst(NonEmpty(SplitOnColon(directories[i])))])

\* the arguments merged left to right, a directory moving to the back each
\* time a later argument mentions it again
ArgMerged(directories) == KeepLast(ParsedMentions(directories))

\* the entries of s that are not in the set D
Without(s, D) == EntriesAt(s, {i \in 1..Len(s) : s[i] \notin D})

AfterEdit == pc \in {"edited", "filtered", "done", "write_failed"}

\* C2: the list Print, New, Add or Append produces, and the list after Filter
\* or Normalize, holds no two equal entries
C2_NoTwoEqualEntries ==
    AfterEdit => NoTwoEqual(path)

\* C2 witness: Add la to the current path a, normalized: la and a are one
\* directory, and the list is ["/a"]
C2_Witness ==
    /\ pc = "filtered"
    /\ command = Command("Add", <<StrLa>>)
    /\ env = StrA
    /\ normalizeReq /\ ~filterReq
    /\ fs = TestFs
    /\ path = <<CanonA>>

\* C3 as claimed: New orders the directories by their last mention, the
\* mentions inside one compound argument included
C3_NewLastMentionEverywhere ==
    (pc = "edited" /\ command.kind = "New") =>
        path = KeepLast(AllMentions(command.directories))

\* C3 as amended: New reads the arguments only; a directory takes the place
\* of the last argument that mentions it, and inside one argument its repeats
\* count once, at the first
C3_NewLastMentioningArgument ==
    (pc = "edited" /\ command.kind = "New") =>
        path = KeepLast(ParsedMentions(command.directories))

\* C3 witness: New with the one argument "a:b:a", the current path being "z",
\* yields [a, b]
C3_Witness ==
    /\ pc = "edited"
    /\ command = Command("New", <<Glue(<<StrA, StrB, StrA>>)>>)
    /\ current = <<StrZ>>
    /\ path = <<StrA, StrB>>

\* C4: Add returns the merged arguments, then the current entries that no
\* argument mentions, in their order
C4_AddArgumentsThenSurvivors ==
    (pc = "edited" /\ command.kind = "Add") =>
        path = ArgMerged(command.directories)
                  \o Without(current, Elems(ArgMerged(command.directories)))

\* C4 witness: current [b, a, la] with the argument a yields [a, b, la]
C4_Witness ==
    /\ pc = "edited"
    /\ command = Command("Add", <<StrA>>)
    /\ current = <<StrB, StrA, StrLa>>
    /\ path = <<StrA, StrB, StrLa>>

\* C5: Append returns the current entries that no argument mentions, in
\* their order, then the merged arguments
C5_AppendSurvivorsThenArguments ==
    (pc = "edited" /\ command.kind = "Append") =>
        path = Without(current, Elems(ArgMerged(command.directories)))
                  \o ArgMerged(command.directories)

\* C5 witness: current [b, a, la] with the argument b yields [a, la, b]
C5_Witness ==
    /\ pc = "edited"
    /\ command = Command("Append", <<StrB>>)
    /\ current = <<StrB, StrA, StrLa>>
    /\ path = <<StrA, StrLa, StrB>>

\* the positions of p whose entry is_valid answers Ok(true) for
ValidAt(f, p) == {i \in 1..Len(p) : is_valid(f, p[i]) = OkBool(TRUE)}

\* the positions of p whose entry canonicalize answers Ok(Some(_)) for
ResolvedAt(f, p) ==
    {i \in 1..Len(p) : canonicalize(f, p[i]).ok /\ canonicalize(f, p[i]).some}

\* the positions of p whose entry canonicalize answers Err for
FailingAt(f, p) == {i \in 1..Len(p) : ~canonicalize(f, p[i]).ok}

\* the canonical forms of the entries at the positions I, in order
CanonicalAt(f, p, I) ==
    [k \in 1..Cardinality(I) |-> canonicalize(f, p[Nth(I, k)]).val]

\* C6 as claimed: normalize never aborts; an entry whose canonicalize fails is
\* dropped like one that yields None, and the others are returned
C6_NormalizeDropsFailingEntries ==
    pc = "normalize_done" =>
        /\ ~result.panicked
        /\ result.list = KeepFirst(CanonicalAt(fs, path, ResolvedAt(fs, path)))

\* C7: filter returns the entries is_valid answers Ok(true) for, in order,
\* each once; the others are dropped without a failure; a list of distinct
\* valid entries comes back unchanged
C7_FilterKeepsValidEntries ==
    pc = "filter_done" =>
        /\ ~result.panicked
        /\ result.list = KeepFirst(EntriesAt(path, ValidAt(fs, path)))
        /\ (NoTwoEqual(path) /\ ValidAt(fs, path) = 1..Len(path)) => result.list = path

\* C7 witness: [a, b, a] where a is a directory and the check of b fails
\* filters to [a]
C7_Witness ==
    /\ pc = "filter_done"
    /\ path = <<StrA, StrB, StrA>>
    /\ fs[StrA].kind = "dir"
    /\ fs[StrB].kind = "metaerr"
    /\ result = Returned(<<StrA>>)

\* C8 as claimed: for every list, normalize returns the canonical forms of
\* the valid directories, each once, in the order of the first entries that
\* resolve to them
C8_NormalizeCanonicalFirsts ==
    pc = "normalize_done" =>
        /\ ~result.panicked
        /\ NoTwoEqual(result.list)
        /\ Elems(result.list) =
              {canonicalize(fs, path[i]).val : i \in ValidAt(fs, path)}
        /\ \A m, n \in 1..Len(result.list) :
              m < n =>
                 \E i \in ValidAt(fs, path) :
                    /\ canonicalize(fs, path[i]).val = result.list[m]
                    /\ \A j \in ValidAt(fs, path) :
                          canonicalize(fs, path[j]).val = result.list[n] => i < j

\* C9: apply_filters runs filter alone when filter is requested (normalize
\* requested or not), normalize alone when only normalize is, and hands the
\* list back as it is when neither is
C9_AtMostOneOfFilterNormalize ==
    pc = "apply_done" =>
        /\ filterReq =>
              /\ result = Returned(KeepFirst(EntriesAt(path, ValidAt(fs, path))))
              /\ Elems(result.list) \subseteq Elems(path)
        /\ (~filterReq /\ normalizeReq) =>
              /\ result.panicked = (FailingAt(fs, path) # {})
              /\ ~result.panicked =>
                    result.list = KeepFirst(CanonicalAt(fs, path, ResolvedAt(fs, path)))
        /\ (~filterReq /\ ~normalizeReq) => result = Returned(path)

\* C9 witness: both flags on [la, a], two names of the directory /a: the list
\* comes back as it is, neither resolved nor collapsed
C9_Witness ==
    /\ pc = "apply_done"
    /\ filterReq /\ normalizeReq
    /\ path = <<StrLa, StrA>>
    /\ fs[StrLa] = FsEntry("dir", CanonA)
    /\ fs[StrA] = FsEntry("dir", CanonA)
    /\ result = Returned(<<StrLa, StrA>>)

----------------------------------------------------------------------------
(* Unit calls of add_unique *)

\* any vector of names, repeats included, and any dir, the empty one included
InitUnique ==
    /\ pc = "unique_start"
    /\ path \in SeqsUpTo(DiskNames, MaxPathLen)
    /\ dirArg \in DiskNames \cup {<<>>}
    /\ once = Unused
    /\ twice = Unused
    /\ fs = TestFs
    /\ result = Returned(Unused)
    /\ source = Unused
    /\ parsed = Unused
    /\ formatted = Unused
    /\ reparsed = Unused
    /\ env = Unused
    /\ command = Command("Print", <<>>)
    /\ filterReq = FALSE
    /\ normalizeReq = FALSE
    /\ prettyReq = FALSE
    /\ current = Unused
    /\ output = Unused
    /\ status = Unused

CallAddUnique ==
    /\ pc = "unique_start"
    /\ once' = add_unique(path, dirArg)
    /\ pc' = "unique_once"
    /\ UNCHANGED <<status, dirArg, twice, env, command, filterReq, normalizeReq, prettyReq,
                   fs, current, path, output, source, parsed, formatted, reparsed,
                   result>>

CallAddUniqueAgain ==
    /\ pc = "unique_once"
    /\ twice' = add_unique(once, dirArg)
    /\ pc' = "unique_twice"
    /\ UNCHANGED <<status, dirArg, once, env, command, filterReq, normalizeReq, prettyReq,
                   fs, current, path, output, source, parsed, formatted, reparsed,
                   result>>

NextUnique == CallAddUnique \/ CallAddUniqueAgain

SpecUnique == InitUnique /\ [][NextUnique]_vars

\* C13: add_unique is idempotent, and leaves the vector as it is, no entry
\* moved, when dir is empty or already in it
C13_AddUniqueIdempotent ==
    /\ pc = "unique_twice" => twice = once
    /\ (pc \in {"unique_once", "unique_twice"}
            /\ (dirArg = <<>> \/ dirArg \in Elems(path))) => once = path
    /\ (pc \in {"unique_once", "unique_twice"}
            /\ dirArg # <<>> /\ dirArg \notin Elems(path)) => once = Append(path, dirArg)

\* C13 witness: [a, b] with dir a stays [a, b] after one call and after two
C13_Witness ==
    /\ pc = "unique_twice"
    /\ path = <<StrA, StrB>>
    /\ dirArg = StrA
    /\ once = <<StrA, StrB>>
    /\ twice = <<StrA, StrB>>

----------------------------------------------------------------------------
(* Add against Append *)

\* equal as bags: each value occurs as often in s as in t
IsPermutation(s, t) ==
    /\ Len(s) = Len(t)
    /\ \A x \in Elems(s) \cup Elems(t) :
          Cardinality({i \in 1..Len(s) : s[i] = x})
              = Cardinality({i \in 1..Len(t) : t[i] = x})

\* what the other of Add and Append returns on the inputs of this run
OtherOfAddAppend ==
    IF command.kind = "Add"
    THEN exec_append(current, command.directories)
    ELSE exec_add(current, command.directories)

\* C14: on the same current path and arguments Add and Append return
\* permutations of one another: the entries of the parsed current path and
\* of the parsed arguments, each once, none empty; with no argument both
\* return the parsed current path
C14_AddAppendSameEntries ==
    (pc = "edited" /\ command.kind \in {"Add", "Append"}) =>
        /\ Elems(path) =
              Elems(KeepFirst(NonEmpty(SplitOnColon(env))))
                 \cup Elems(AllMentions(command.directories))
        /\ NoTwoEqual(path)
        /\ <<>> \notin Elems(path)
        /\ IsPermutation(path, OtherOfAddAppend)
        /\ command.directories = <<>> =>
              /\ path = KeepFirst(NonEmpty(SplitOnColon(env)))
              /\ OtherOfAddAppend = path

\* C14 witness: current [b, a] with the argument "z:a": Add returns
\* [z, a, b] and Append [b, z, a]
C14_Witness ==
    /\ pc = "edited"
    /\ command = Command("Add", <<Glue(<<StrZ, StrA>>)>>)
    /\ current = <<StrB, StrA>>
    /\ path = <<StrZ, StrA, StrB>>
    /\ OtherOfAddAppend = <<StrB, StrZ, StrA>>

----------------------------------------------------------------------------
(* Analyzer: the raw parse and the duplicate report *)
(* get_duplicate_dirs and parse_raw_path are called by the tests            *)
(* (tests.rs, test_parse_path and test_get_duplicate_dirs) and described in *)
(* spec.md sections 3, 4.1 and 4.6; main.rs does not hold them.             *)

\* parse_raw_path: the non-empty pieces between the colons, repeats kept
RECURSIVE parse_raw_loop(_, _)
parse_raw_loop(p, remaining) ==
    IF remaining = <<>> THEN p
    ELSE LET i == find(remaining, Colon)
             piece == IF i # 0 THEN SubSeq(remaining, 1, i - 1) ELSE remaining
             rest == IF i # 0 THEN SubSeq(remaining, i + 1, Len(remaining)) ELSE <<>>
         IN  parse_raw_loop(IF piece # <<>> THEN Append(p, piece) ELSE p, rest)

parse_raw_path(src) == parse_raw_loop(<<>>, src)

\* the scan with a seen-set: an entry already seen is reported
RECURSIVE duplicates_loop(_, _, _)
duplicates_loop(seen, report, raw) ==
    IF raw = <<>> THEN report
    ELSE IF Head(raw) \in seen
         THEN duplicates_loop(seen, Append(report, Head(raw)), Tail(raw))
         ELSE duplicates_loop(seen \cup {Head(raw)}, report, Tail(raw))

\* get_duplicate_dirs reporting a repeated entry once only
get_duplicate_dirs_once(src) ==
    unique(duplicates_loop({}, <<>>, parse_raw_path(src)))

\* get_duplicate_dirs
get_duplicate_dirs(src) == duplicates_loop({}, <<>>, parse_raw_path(src))

InitDuplicates ==
    /\ pc = "duplicates_start"
    /\ source \in SeqsUpTo(Chars, MaxSrcLen)
    /\ parsed = Unused
    /\ formatted = Unused
    /\ reparsed = Unused
    /\ result = Returned(Unused)
    /\ fs = TestFs
    /\ path = Unused
    /\ MainVarsUnused

CallParseRawPath ==
    /\ pc = "duplicates_start"
    /\ parsed' = parse_raw_path(source)
    /\ pc' = "raw_done"
    /\ UNCHANGED <<status, dirArg, once, twice, env, command, filterReq, normalizeReq,
                   prettyReq, fs, current, path, output, source, formatted,
                   reparsed, result>>

CallGetDuplicateDirs ==
    /\ pc = "raw_done"
    /\ result' = Returned(get_duplicate_dirs(source))
    /\ pc' = "duplicates_done"
    /\ UNCHANGED <<status, dirArg, once, twice, env, command, filterReq, normalizeReq,
                   prettyReq, fs, current, path, output, source, parsed,
                   formatted, reparsed>>

NextDuplicates == CallParseRawPath \/ CallGetDuplicateDirs

SpecDuplicates == InitDuplicates /\ [][NextDuplicates]_vars

\* how often x occurs in s
Count(s, x) == Cardinality({i \in 1..Len(s) : s[i] = x})

\* C11: the duplicate report lists, in order, every non-empty entry other
\* than the first of its value: an entry occurring k times is reported k - 1
\* times
C11_DuplicatesAfterFirst ==
    pc = "duplicates_done" =>
        LET raw == NonEmpty(SplitOnColon(source)) IN
        /\ parsed = raw
        /\ result.list =
              EntriesAt(raw, {i \in 1..Len(raw) : \E j \in 1..(i - 1) : raw[j] = raw[i]})
        /\ \A x \in Elems(raw) : Count(result.list, x) = Count(raw, x) - 1

\* C11 witness: "a:b:a:a" reports [a, a]
C11_Witness ==
    /\ pc = "duplicates_done"
    /\ source = <<"a", Colon, "b", Colon, "a", Colon, "a">>
    /\ parsed = <<StrA, StrB, StrA, StrA>>
    /\ result = Returned(<<StrA, StrA>>)

----------------------------------------------------------------------------
(* Analyzer: the shadow report *)
(* get_shadowed and Shadow are used by the tests (tests.rs,                 *)
(* test_get_shadowed) and described in spec.md sections 3 and 4.6; main.rs  *)
(* does not hold them.  The shadows of one directory are a set here: the    *)
(* order in which a directory lists its files is the filesystem's.          *)

FileK == <<"k">>
FileX == <<"x">>

\* the file names a directory may hold
FileNames == {FileK, FileX}

\* a name with the files listed in it, when it is a directory
DirEntry(kind, files) == [kind |-> kind, target |-> <<>>, files |-> files]

\* every filesystem over the names on disk: each missing, a regular file, or
\* a directory holding some of the file names
ListedFileSystems ==
    [DiskNames ->
        {DirEntry("absent", {}), DirEntry("file", {})}
            \cup {DirEntry("dir", fl) : fl \in SUBSET FileNames}]

\* the names of the files directly in p
read_dir(f, p) == IF p \in DOMAIN f THEN f[p].files ELSE {}

\* Shadow::new(directory, filename): the earlier directory and the file name
Shadow(directory, filename) == [directory |-> directory, filename |-> filename]

\* the scan of get_shadowed: first maps each file name met so far to the
\* earliest directory holding it
RECURSIVE shadowed_loop(_, _, _, _)
shadowed_loop(f, first, report, raw) ==
    IF raw = <<>> THEN report
    ELSE LET d == Head(raw)
             files == IF is_valid(f, d) = OkBool(TRUE) THEN read_dir(f, d) ELSE {}
             shadows == {Shadow(first[n], n) : n \in files \cap DOMAIN first}
             first2 == [n \in DOMAIN first \cup files |->
                          IF n \in DOMAIN first THEN first[n] ELSE d]
         IN  shadowed_loop(f, first2,
                           IF shadows # {} THEN Append(report, <<d, shadows>>) ELSE report,
                           Tail(raw))

\* the scan with the latest directory taking over a file name
RECURSIVE shadowed_loop_last(_, _, _, _)
shadowed_loop_last(f, first, report, raw) ==
    IF raw = <<>> THEN report
    ELSE LET d == Head(raw)
             files == IF is_valid(f, d) = OkBool(TRUE) THEN read_dir(f, d) ELSE {}
             shadows == {Shadow(first[n], n) : n \in files \cap DOMAIN first}
             first2 == [n \in DOMAIN first \cup files |->
                          IF n \in files THEN d ELSE first[n]]
         IN  shadowed_loop_last(f, first2,
                                IF shadows # {} THEN Append(report, <<d, shadows>>) ELSE report,
                                Tail(raw))

\* get_shadowed naming the latest earlier directory
get_shadowed_last_writer(f, src) ==
    shadowed_loop_last(f, <<>>, <<>>, parse_raw_path(src))

\* get_shadowed
get_shadowed(f, src) == shadowed_loop(f, <<>>, <<>>, parse_raw_path(src))

InitShadowed ==
    /\ pc = "shadowed_start"
    /\ source \in {Glue(segs) : segs \in SeqsUpTo(Segs, MaxShadowSegs)}
    /\ fs \in ListedFileSystems
    /\ parsed = Unused
    /\ formatted = Unused
    /\ reparsed = Unused
    /\ result = Returned(Unused)
    /\ path = Unused
    /\ MainVarsUnused

CallGetShadowed ==
    /\ pc = "shadowed_start"
    /\ result' = Returned(get_shadowed(fs, source))
    /\ pc' = "shadowed_done"
    /\ UNCHANGED <<status, dirArg, once, twice, env, command, filterReq, normalizeReq,
                   prettyReq, fs, current, path, output, source, parsed,
                   formatted, reparsed>>

NextShadowed == CallGetShadowed

SpecShadowed == InitShadowed /\ [][NextShadowed]_vars

\* the positions of raw that hold a valid directory with file name n in it
Holding(f, raw, n) ==
    {i \in 1..Len(raw) : is_valid(f, raw[i]) = OkBool(TRUE) /\ n \in read_dir(f, raw[i])}

\* the file names at position i that an earlier position holds too
Repeated(f, raw, i) ==
    {n \in FileNames : i \in Holding(f, raw, n)
                          /\ \E j \in Holding(f, raw, n) : j < i}

\* C12: the shadow report has an entry for a directory exactly when it holds
\* a file name an earlier directory of the list holds, the entries are in
\* list order, and each shadow names the earliest directory holding the name
C12_ShadowedByEarliest ==
    pc = "shadowed_done" =>
        LET raw == NonEmpty(SplitOnColon(source))
            at == {i \in 1..Len(raw) : Repeated(fs, raw, i) # {}}
        IN  /\ Len(result.list) = Cardinality(at)
            /\ \A k \in 1..Len(result.list) :
                  LET i == Nth(at, k) IN
                  /\ result.list[k][1] = raw[i]
                  /\ result.list[k][2] =
                        {Shadow(raw[Nth(Holding(fs, raw, n), 1)], n) :
                            n \in Repeated(fs, raw, i)}

\* C12 witness: "a:b:la" with x in all three: b and la both shadow a's x, and
\* la's entry does not name b
C12_Witness ==
    /\ pc = "shadowed_done"
    /\ source = Glue(<<StrA, StrB, StrLa>>)
    /\ \A n \in DiskNames : fs[n] = DirEntry("dir", {FileX})
    /\ result = Returned(<< <<StrB, {Shadow(StrA, FileX)}>>,
                            <<StrLa, {Shadow(StrA, FileX)}>> >>)

====
